---- MODULE Spec2Model ----
(***************************************************************************)
(* GridAnimationApp (src/script.js): the per-cell flip state machine, the  *)
(* pooled canvas particle simulator, the DOM ephemeral effects and the     *)
(* completion ("grand finale") path, as one state machine.                 *)
(*                                                                         *)
(* Every handler of the class is one action.  setTimeout callbacks are     *)
(* entries of `timers`; requestAnimationFrame callbacks are entries of     *)
(* `frames`.  Random draws (particle life, effect durations) are           *)
(* nondeterministic choices.  Geometry, colours, ARIA text and the         *)
(* keyboard cursor are presentation only and are not part of the state.    *)
(***************************************************************************)
EXTENDS Integers, Sequences, FiniteSets, TLC

(***************************************************************************)
(* Bounds (the source's sizes scaled down)                                 *)
(***************************************************************************)
\* number of cells of the grid (gridSize * gridSize, 81 in the source)
NumCells == 2
\* canvas particles spawned by one burst (30 in the source)
BurstSize == 1
\* particle life is drawn from 1..MaxLife ([50,150) in the source)
MaxLife == 2
\* DOM sparks / smoke / glows per forward activation (25 / 8 / 3)
particlesPerClick == 1
smokeParticlesPerClick == 0
glowEffectsPerClick == 0
\* fragments of one grand finale (100 in the source)
FinaleSize == 1
\* cap of the live canvas particle list (1000 in the source)
maxParticles == 2
\* cap of the DOM effect set (200 in the source)
MaxDomParticles == 2
\* cap of the particle pool (100 in the source)
PoolCap == 2
\* input events of one run: accepted activations and resets
MaxClicks == 2
MaxResets == 1
\* exceptions thrown in one run
MaxFaults == 1

(***************************************************************************)
(* Program constants                                                       *)
(***************************************************************************)
animationDuration == 800
ForwardDelay == 50
GuardDelay == 750
CompletionDelay == 500
CooldownDelay == 5000
FinaleDuration == 3000

Cells == 1..NumCells
totalCells == NumCells

VARIABLES
    flipped,                \* cell -> classList contains 'flipped'
    animating,              \* cell -> dataset.animating === 'true'
    flippedCount,           \* state.flippedCount
    completionEffectActive, \* state.completionEffectActive
    canvasParticles,        \* state.canvasParticles: list of particle records
    particlePool,           \* this.particlePool: list of retired records
    domParticles,           \* state.domParticles: Set, in insertion order
    attached,               \* elements that are children of particlesContainer
    animationLoopRunning,   \* state.animationLoopRunning
    rafId,                  \* this.rafId (0 is null)
    frames,                 \* requestAnimationFrame callbacks not yet run
    hidden,                 \* document.hidden
    timers,                 \* setTimeout callbacks not yet run
    finaleBursts,           \* grand finales emitted since construction / last reset
    finaleBeforeReset,      \* a grand finale was emitted before the last reset
    resetClean,             \* a reset happened and no activation was accepted since
    everAllFlipped,         \* at some moment every cell carried the flipped flag
    inputs,                 \* input events so far: [clicks, resets]
    page,                   \* the required surfaces the document offers
    isInitialized,          \* state.isInitialized
    fallbackShown,          \* the container shows the static fallback text
    initOutcome,            \* how the last call of init() ended
    faults                  \* exceptions thrown so far: [count, escaped, stuck, recovered]

vars == <<flipped, animating, flippedCount, completionEffectActive,
          canvasParticles, particlePool, domParticles, attached,
          animationLoopRunning, rafId, frames, hidden, timers,
          finaleBursts, finaleBeforeReset, resetClean, everAllFlipped,
          inputs, page, isInitialized, fallbackShown, initOutcome, faults>>

(***************************************************************************)
(* Helpers                                                                 *)
(***************************************************************************)
SeqToSet(s) == {s[i] : i \in 1..Len(s)}

RemoveAt(s, i) == SubSeq(s, 1, i - 1) \o SubSeq(s, i + 1, Len(s))

Without(s, e) == SelectSeq(s, LAMBDA x : x # e)

Min(a, b) == IF a <= b THEN a ELSE b

\* the k smallest positive integers outside `used`, ascending
RECURSIVE FreshIds(_, _)
FreshIds(used, k) ==
    IF k = 0 THEN <<>>
    ELSE LET n == CHOOSE m \in 1..(Cardinality(used) + 1) :
                      m \notin used /\ \A j \in 1..(m - 1) : j \in used
         IN <<n>> \o FreshIds(used \cup {n}, k - 1)

\* all sequences of length k over S
RECURSIVE SeqsOf(_, _)
SeqsOf(S, k) ==
    IF k = 0 THEN {<<>>}
    ELSE {Append(s, x) : s \in SeqsOf(S, k - 1), x \in S}

(***************************************************************************)
(* setTimeout callbacks.  A timer is [kind, arg]; `timers` lists the       *)
(* pending ones in scheduling order (callbacks scheduled by one handler    *)
(* are listed by ascending delay).  The delay of a kind lies in            *)
(* [MinDelay, SupDelay]; for the randomised durations SupDelay is the      *)
(* exclusive upper end.                                                    *)
(***************************************************************************)
CellKinds == {"forward", "guard", "back"}
DomKinds == {"particle", "smoke", "glow", "finale"}

MinDelay(kind) ==
    CASE kind = "forward"    -> ForwardDelay
      [] kind = "guard"      -> GuardDelay
      [] kind = "back"       -> animationDuration
      [] kind = "completion" -> CompletionDelay
      [] kind = "cooldown"   -> CooldownDelay
      [] kind = "particle"   -> 1500
      [] kind = "smoke"      -> 2000
      [] kind = "glow"       -> 1000
      [] kind = "finale"     -> FinaleDuration

SupDelay(kind) ==
    CASE kind = "particle"   -> 1500 + 1000
      [] kind = "smoke"      -> 2000 + 2000
      [] kind = "glow"       -> 1000 + 1000
      [] OTHER               -> MinDelay(kind)

Timer(kind, arg) == [kind |-> kind, arg |-> arg]

\* The browser runs timers in deadline order, equal deadlines in scheduling
\* order: a timer cannot run while an earlier-scheduled one whose delay is
\* certainly not longer is still pending.
CanFire(i) ==
    /\ i \in 1..Len(timers)
    /\ \A j \in 1..(i - 1) : SupDelay(timers[j].kind) > MinDelay(timers[i].kind)

PendingKinds == {timers[i].kind : i \in 1..Len(timers)}

(***************************************************************************)
(* Particle pool                                                           *)
(***************************************************************************)
Particle(id, life, active) == [id |-> id, life |-> life, active |-> active]

\* variant: the record is kept whatever the size of the pool
returnParticleToPool_noCap(pool, p) == Append(pool, [p EXCEPT !.active = FALSE])

\* returnParticleToPool: mark inactive, keep only below the cap
returnParticleToPool(pool, p) ==
    IF Len(pool) < PoolCap
    THEN Append(pool, [p EXCEPT !.active = FALSE])
    ELSE pool

\* variant: the record is read from the pool and left in it
getParticleFromPool_peek(pool) ==
    IF Len(pool) > 0
    THEN [got |-> TRUE, rec |-> pool[Len(pool)], pool |-> pool]
    ELSE [got |-> FALSE, rec |-> Particle(0, 0, FALSE), pool |-> pool]

\* getParticleFromPool: pop(); `got` is false when pop() gave undefined
\* (rec is then a placeholder)
getParticleFromPool(pool) ==
    IF Len(pool) > 0
    THEN [got |-> TRUE, rec |-> pool[Len(pool)],
          pool |-> SubSeq(pool, 1, Len(pool) - 1)]
    ELSE [got |-> FALSE, rec |-> Particle(0, 0, FALSE), pool |-> pool]

\* createParticle: a zero record; its identity is one no live record has
createParticle(parts) ==
    Particle(FreshIds({parts[i].id : i \in 1..Len(parts)}, 1)[1], 0, FALSE)

\* getParticleFromPool() || createParticle()
acquire(parts, pool) ==
    LET g == getParticleFromPool(pool) IN
    [rec |-> IF g.got THEN g.rec ELSE createParticle(parts), pool |-> g.pool]

\* variant: the particle moves but does not age
updateParticle_noDecay(p) == p

\* updateParticle: one step of motion; only life is observable here
updateParticle(p) == [p EXCEPT !.life = p.life - 1]

(***************************************************************************)
(* Canvas particle simulator.  A simulator state is the record             *)
(* [parts, pool, running, rafId, frames].                                  *)
(***************************************************************************)
Sim == [parts |-> canvasParticles, pool |-> particlePool,
        running |-> animationLoopRunning, rafId |-> rafId, frames |-> frames]

\* requestAnimationFrame returns a handle no pending or remembered
\* request carries
NewFrameId(s) ==
    CHOOSE n \in 1..(Cardinality(s.frames) + 2) :
        /\ n \notin s.frames /\ n # s.rafId
        /\ \A j \in 1..(n - 1) : j \in s.frames \/ j = s.rafId

\* the reverse loop of animateCanvasParticles, from index i down to 1
RECURSIVE advance(_, _, _)
advance(i, parts, pool) ==
    IF i = 0 THEN [parts |-> parts, pool |-> pool]
    ELSE LET p == parts[i] IN
         IF ~p.active \/ p.life <= 0
         THEN advance(i - 1, RemoveAt(parts, i), returnParticleToPool(pool, p))
         ELSE advance(i - 1, [parts EXCEPT ![i] = updateParticle(p)], pool)

\* variant: the next frame is requested whether or not particles are left
animateCanvasParticles_alwaysRequest(s) ==
    IF ~s.running THEN s
    ELSE LET r == advance(Len(s.parts), s.parts, s.pool) IN
         [parts |-> r.parts, pool |-> r.pool, running |-> TRUE,
          rafId |-> NewFrameId(s), frames |-> s.frames \cup {NewFrameId(s)}]

animateCanvasParticles(s) ==
    IF ~s.running THEN s
    ELSE LET r == advance(Len(s.parts), s.parts, s.pool) IN
         IF Len(r.parts) > 0
         THEN [parts |-> r.parts, pool |-> r.pool, running |-> TRUE,
               rafId |-> NewFrameId(s), frames |-> s.frames \cup {NewFrameId(s)}]
         ELSE [parts |-> r.parts, pool |-> r.pool, running |-> FALSE,
               rafId |-> s.rafId, frames |-> s.frames]

startAnimationLoop(s) ==
    IF ~s.running
    THEN animateCanvasParticles([s EXCEPT !.running = TRUE])
    ELSE s

\* variant: the recycled record is read from the pool but left in it
RECURSIVE spawn_noPop(_, _, _)
spawn_noPop(parts, pool, lives) ==
    IF lives = <<>> THEN [parts |-> parts, pool |-> pool]
    ELSE LET id == IF Len(pool) > 0
                   THEN pool[Len(pool)].id
                   ELSE FreshIds({parts[i].id : i \in 1..Len(parts)}, 1)[1]
         IN spawn_noPop(Append(parts, Particle(id, Head(lives), TRUE)), pool,
                        Tail(lives))

\* the spawn loop: one record per life in `lives`, recycled from the end of
\* the pool when it has one, fresh otherwise
RECURSIVE spawn(_, _, _)
spawn(parts, pool, lives) ==
    IF lives = <<>> THEN [parts |-> parts, pool |-> pool]
    ELSE LET a == acquire(parts, pool)
         IN spawn(Append(parts, Particle(a.rec.id, Head(lives), TRUE)), a.pool,
                  Tail(lives))

createCanvasParticles(s, lives) ==
    LET kept == IF Len(s.parts) > maxParticles
                THEN SubSeq(s.parts, Min(maxParticles \div 2, Len(s.parts)) + 1,
                            Len(s.parts))
                ELSE s.parts
        r == spawn(kept, s.pool, lives)
    IN startAnimationLoop([s EXCEPT !.parts = r.parts, !.pool = r.pool])

\* variant: the loop is flagged as stopped, the pending frame is not cancelled
pauseAnimations_noCancel(s) == [s EXCEPT !.rafId = 0, !.running = FALSE]

pauseAnimations(s) ==
    [s EXCEPT !.frames = IF s.rafId # 0 THEN s.frames \ {s.rafId} ELSE s.frames,
              !.rafId = 0,
              !.running = FALSE]

resumeAnimations(s) ==
    IF Len(s.parts) > 0 /\ ~s.running THEN startAnimationLoop(s) ELSE s

(***************************************************************************)
(* DOM ephemeral effects.  A DOM state is the record [set, att]: the       *)
(* tracking set in insertion order and the elements attached to the        *)
(* particles container.                                                    *)
(***************************************************************************)
Dom == [set |-> domParticles, att |-> attached]

\* element handles some pending removal timer or the display still refers to
UsedElems ==
    SeqToSet(domParticles) \cup attached
        \cup {timers[i].arg : i \in {j \in 1..Len(timers) : timers[j].kind \in DomKinds}}

\* variant: the element is detached but stays tracked
removeParticle_detachOnly(d, e) == [set |-> d.set, att |-> d.att \ {e}]

removeParticle(d, e) ==
    IF e \in d.att
    THEN [set |-> Without(d.set, e), att |-> d.att \ {e}]
    ELSE d

RECURSIVE removeAll(_, _)
removeAll(d, es) ==
    IF es = <<>> THEN d ELSE removeAll(removeParticle(d, Head(es)), Tail(es))

cleanupOldParticles(d) == removeAll(d, SubSeq(d.set, 1, Len(d.set) \div 2))

\* appendChild + domParticles.add for each new element
addEffects(d, ids) == [set |-> d.set \o ids, att |-> d.att \cup SeqToSet(ids)]

EffectsPerClick == particlesPerClick + smokeParticlesPerClick + glowEffectsPerClick

createParticleEffects(d, ids) ==
    addEffects(IF Len(d.set) > MaxDomParticles THEN cleanupOldParticles(d) ELSE d,
               ids)

\* removal timers of the effects of one activation: ids are in creation
\* order (sparks, smoke, glows), the timers by ascending delay
EffectTimers(ids) ==
    LET sparks == SubSeq(ids, 1, particlesPerClick)
        smokes == SubSeq(ids, particlesPerClick + 1,
                         particlesPerClick + smokeParticlesPerClick)
        glows  == SubSeq(ids, particlesPerClick + smokeParticlesPerClick + 1,
                         EffectsPerClick)
    IN [i \in 1..Len(glows) |-> Timer("glow", glows[i])]
       \o [i \in 1..Len(sparks) |-> Timer("particle", sparks[i])]
       \o [i \in 1..Len(smokes) |-> Timer("smoke", smokes[i])]

createGrandFinaleEffect(d, ids) == addEffects(d, ids)

(***************************************************************************)
(* Completion detection                                                    *)
(***************************************************************************)
\* variant: the comparison is off by one
checkAllFlipped_offByOne(count, active) == count >= totalCells - 1 /\ ~active

\* the condition of checkAllFlipped
checkAllFlipped(count, active) == count = totalCells /\ ~active

(***************************************************************************)
(* Reset                                                                   *)
(***************************************************************************)
\* variant: the list is emptied but the frame loop is left as it is
clearCanvas_keepLoop(s) == [s EXCEPT !.parts = <<>>]

\* clearAllParticles on a simulator state
clearCanvas(s) ==
    [s EXCEPT !.parts = <<>>,
              !.frames = IF s.rafId # 0 THEN s.frames \ {s.rafId} ELSE s.frames,
              !.rafId = 0,
              !.running = FALSE]

\* the program state as one record, and handleReset as a function on it
AppState ==
    [flipped |-> flipped, animating |-> animating,
     flippedCount |-> flippedCount,
     completionEffectActive |-> completionEffectActive,
     sim |-> Sim, dom |-> Dom, timers |-> timers]

\* variant: the completion flag is toggled instead of cleared
handleReset_toggle(a) ==
    [a EXCEPT !.flipped = [c \in Cells |-> FALSE],
              !.animating = [c \in Cells |-> FALSE],
              !.flippedCount = 0,
              !.completionEffectActive = ~a.completionEffectActive,
              !.sim = clearCanvas(a.sim),
              !.dom = [set |-> <<>>, att |-> a.dom.att \ SeqToSet(a.dom.set)]]

\* variant: the tracking set is cleared but the elements stay displayed
handleReset_keepAttached(a) ==
    [a EXCEPT !.flipped = [c \in Cells |-> FALSE],
              !.animating = [c \in Cells |-> FALSE],
              !.flippedCount = 0,
              !.completionEffectActive = FALSE,
              !.sim = clearCanvas(a.sim),
              !.dom = [set |-> <<>>, att |-> a.dom.att]]

\* variant: the guards are left as they are
handleReset_keepGuards(a) ==
    [a EXCEPT !.flipped = [c \in Cells |-> FALSE],
              !.flippedCount = 0,
              !.completionEffectActive = FALSE,
              !.sim = clearCanvas(a.sim),
              !.dom = [set |-> <<>>, att |-> a.dom.att \ SeqToSet(a.dom.set)]]

handleReset(a) ==
    [a EXCEPT !.flipped = [c \in Cells |-> FALSE],
              !.animating = [c \in Cells |-> FALSE],
              !.flippedCount = 0,
              !.completionEffectActive = FALSE,
              !.sim = clearCanvas(a.sim),
              !.dom = [set |-> <<>>, att |-> a.dom.att \ SeqToSet(a.dom.set)]]

(***************************************************************************)
(* init(): the surfaces cacheElements requires, and what init() leaves     *)
(* behind.  The outcome is the record [isInitialized, fallbackShown,       *)
(* outcome], outcome being "returned" or "threw".                          *)
(***************************************************************************)
Surfaces == {"gridContainer", "canvas", "container", "ctx"}

\* cacheElements returns normally (TRUE) or throws (FALSE)
cacheElements(present) ==
    /\ {"gridContainer", "canvas", "container"} \subseteq present
    /\ "ctx" \in present

\* showFallbackMessage: the text is written into the container, if any
showFallbackMessage(present) == "container" \in present

init(present, initialized, fallback) ==
    IF initialized
    THEN [isInitialized |-> TRUE, fallbackShown |-> fallback,
          outcome |-> "returned"]
    ELSE IF cacheElements(present)
    THEN [isInitialized |-> TRUE, fallbackShown |-> fallback,
          outcome |-> "returned"]
    ELSE [isInitialized |-> FALSE,
          fallbackShown |-> (fallback \/ showFallbackMessage(present)),
          outcome |-> "returned"]

(***************************************************************************)
(* Initial state: after construction and init()                            *)
(***************************************************************************)
Constructed ==
    /\ flipped = [c \in Cells |-> FALSE]
    /\ animating = [c \in Cells |-> FALSE]
    /\ flippedCount = 0
    /\ completionEffectActive = FALSE
    /\ canvasParticles = <<>>
    /\ particlePool = <<>>
    /\ domParticles = <<>>
    /\ attached = {}
    /\ animationLoopRunning = FALSE
    /\ rafId = 0
    /\ frames = {}
    /\ hidden = FALSE
    /\ timers = <<>>
    /\ finaleBursts = 0
    /\ finaleBeforeReset = FALSE
    /\ resetClean = FALSE
    /\ everAllFlipped = FALSE
    /\ inputs = [clicks |-> 0, resets |-> 0]
    /\ fallbackShown = FALSE
    /\ faults = [count |-> 0, escaped |-> {}, stuck |-> {}, recovered |-> {},
                 effects |-> {}, frames |-> 0]

\* a complete document, init() has run
Init ==
    /\ Constructed
    /\ page = Surfaces
    /\ isInitialized = TRUE
    /\ initOutcome = "returned"

SetSim(s) ==
    /\ canvasParticles' = s.parts
    /\ particlePool' = s.pool
    /\ animationLoopRunning' = s.running
    /\ rafId' = s.rafId
    /\ frames' = s.frames

SetDom(d) ==
    /\ domParticles' = d.set
    /\ attached' = d.att

simVars == <<canvasParticles, particlePool, animationLoopRunning, rafId, frames>>
domVars == <<domParticles, attached>>
cellVars == <<flipped, animating, flippedCount, completionEffectActive>>
ghostVars == <<finaleBursts, finaleBeforeReset, resetClean, everAllFlipped,
               inputs>>
pageVars == <<page, isInitialized, fallbackShown, initOutcome>>

(***************************************************************************)
(* Activation: handleCellClick -> animateCell -> flipCellBack/Forward      *)
(***************************************************************************)
\* variant: the back transition displays the effects of a forward one
flipCellBack_withEffects(c) ==
    LET ids == FreshIds(UsedElems, EffectsPerClick) IN
    /\ SetDom(createParticleEffects(Dom, ids))
    /\ timers' = Append(timers, Timer("back", c)) \o EffectTimers(ids)
    /\ UNCHANGED simVars

flipCellBack(c) ==
    /\ timers' = Append(timers, Timer("back", c))
    /\ UNCHANGED <<simVars, domVars>>

flipCellForward(c, lives) ==
    LET ids == FreshIds(UsedElems, EffectsPerClick) IN
    /\ SetDom(createParticleEffects(Dom, ids))
    /\ SetSim(createCanvasParticles(Sim, lives))
    /\ timers' = Append(timers, Timer("forward", c)) \o EffectTimers(ids)

\* variant: the guard is not set by the activation
animateCell_lateGuard(c) ==
    /\ animating' = animating
    /\ IF flipped[c]
       THEN flipCellBack(c)
       ELSE \E lives \in SeqsOf(1..MaxLife, BurstSize) : flipCellForward(c, lives)

animateCell(c) ==
    /\ animating' = [animating EXCEPT ![c] = TRUE]
    /\ IF flipped[c]
       THEN flipCellBack(c)
       ELSE \E lives \in SeqsOf(1..MaxLife, BurstSize) : flipCellForward(c, lives)

\* variant: the guard never matches
Rejects_never(c) == FALSE

\* variant: one guard for the whole grid
Rejects_anyCell(c) == \E d \in Cells : animating[d]

\* the guard of handleCellClick
Rejects(c) == animating[c]

HandleCellClick(c) ==
    IF Rejects(c)
    THEN UNCHANGED vars
    ELSE /\ animateCell(c)
         /\ resetClean' = FALSE
         /\ inputs' = [inputs EXCEPT !.clicks = @ + 1]
         /\ UNCHANGED <<flipped, flippedCount, completionEffectActive, hidden,
                        finaleBursts, finaleBeforeReset, everAllFlipped,
                        pageVars, faults>>

(***************************************************************************)
(* setTimeout callbacks                                                    *)
(***************************************************************************)
\* variant: the nested 750 ms callback is never scheduled
ForwardDone_noGuardTimer ==
    \E i \in 1..Len(timers) :
        /\ CanFire(i) /\ timers[i].kind = "forward"
        /\ LET c == timers[i].arg
               trigger == checkAllFlipped(flippedCount + 1, completionEffectActive)
           IN /\ flipped' = [flipped EXCEPT ![c] = TRUE]
              /\ flippedCount' = flippedCount + 1
              /\ completionEffectActive' = (completionEffectActive \/ trigger)
              /\ timers' = RemoveAt(timers, i)
                             \o (IF trigger THEN <<Timer("completion", 0)>> ELSE <<>>)
              /\ everAllFlipped' = (everAllFlipped
                                       \/ \A d \in Cells : d = c \/ flipped[d])
        /\ UNCHANGED <<animating, simVars, domVars, hidden, finaleBursts,
                       finaleBeforeReset, resetClean, inputs, pageVars, faults>>

\* the 50 ms callback of flipCellForward
ForwardDone ==
    \E i \in 1..Len(timers) :
        /\ CanFire(i) /\ timers[i].kind = "forward"
        /\ LET c == timers[i].arg
               trigger == checkAllFlipped(flippedCount + 1, completionEffectActive)
           IN /\ flipped' = [flipped EXCEPT ![c] = TRUE]
              /\ flippedCount' = flippedCount + 1
              /\ completionEffectActive' = (completionEffectActive \/ trigger)
              /\ timers' = RemoveAt(timers, i)
                             \o (IF trigger THEN <<Timer("completion", 0)>> ELSE <<>>)
                             \o <<Timer("guard", c)>>
              /\ everAllFlipped' = (everAllFlipped
                                       \/ \A d \in Cells : d = c \/ flipped[d])
        /\ UNCHANGED <<animating, simVars, domVars, hidden, finaleBursts,
                       finaleBeforeReset, resetClean, inputs, pageVars, faults>>

\* the 750 ms callback nested in it
GuardClear ==
    \E i \in 1..Len(timers) :
        /\ CanFire(i) /\ timers[i].kind = "guard"
        /\ animating' = [animating EXCEPT ![timers[i].arg] = FALSE]
        /\ timers' = RemoveAt(timers, i)
        /\ UNCHANGED <<flipped, flippedCount, completionEffectActive,
                       simVars, domVars, hidden, ghostVars, pageVars, faults>>

\* variant: the callback forgets the counter
BackDone_noCount ==
    \E i \in 1..Len(timers) :
        /\ CanFire(i) /\ timers[i].kind = "back"
        /\ flipped' = [flipped EXCEPT ![timers[i].arg] = FALSE]
        /\ animating' = [animating EXCEPT ![timers[i].arg] = FALSE]
        /\ timers' = RemoveAt(timers, i)
        /\ UNCHANGED <<flippedCount, completionEffectActive, simVars, domVars,
                       hidden, ghostVars, pageVars, faults>>

\* the callback of flipCellBack
BackDone ==
    \E i \in 1..Len(timers) :
        /\ CanFire(i) /\ timers[i].kind = "back"
        /\ flipped' = [flipped EXCEPT ![timers[i].arg] = FALSE]
        /\ animating' = [animating EXCEPT ![timers[i].arg] = FALSE]
        /\ flippedCount' = flippedCount - 1
        /\ timers' = RemoveAt(timers, i)
        /\ UNCHANGED <<completionEffectActive, simVars, domVars, hidden,
                       ghostVars, pageVars, faults>>

\* the 500 ms callback of checkAllFlipped: createCompletionEffect
CompletionFire ==
    \E i \in 1..Len(timers) :
        /\ CanFire(i) /\ timers[i].kind = "completion"
        /\ LET ids == FreshIds(UsedElems, FinaleSize) IN
           /\ SetDom(createGrandFinaleEffect(Dom, ids))
           /\ timers' = RemoveAt(timers, i)
                          \o [k \in 1..FinaleSize |-> Timer("finale", ids[k])]
                          \o <<Timer("cooldown", 0)>>
        /\ finaleBursts' = finaleBursts + 1
        /\ UNCHANGED <<cellVars, simVars, hidden, finaleBeforeReset, resetClean,
                       everAllFlipped, inputs, pageVars, faults>>

\* the 5000 ms callback of createCompletionEffect
CooldownFire ==
    \E i \in 1..Len(timers) :
        /\ CanFire(i) /\ timers[i].kind = "cooldown"
        /\ completionEffectActive' = FALSE
        /\ timers' = RemoveAt(timers, i)
        /\ UNCHANGED <<flipped, animating, flippedCount, simVars, domVars,
                       hidden, ghostVars, pageVars, faults>>

\* the removal callback of a spark, smoke, glow or finale fragment
RemovalFire ==
    \E i \in 1..Len(timers) :
        /\ CanFire(i) /\ timers[i].kind \in DomKinds
        /\ SetDom(removeParticle(Dom, timers[i].arg))
        /\ timers' = RemoveAt(timers, i)
        /\ UNCHANGED <<cellVars, simVars, hidden, ghostVars, pageVars, faults>>

(***************************************************************************)
(* requestAnimationFrame callback; not delivered while the page is hidden  *)
(***************************************************************************)
AnimationFrame ==
    \E f \in frames :
        /\ ~hidden
        /\ SetSim(animateCanvasParticles([Sim EXCEPT !.frames = frames \ {f}]))
        /\ UNCHANGED <<cellVars, domVars, hidden, timers, ghostVars, pageVars, faults>>

(***************************************************************************)
(* Reset button and visibilitychange                                       *)
(***************************************************************************)
HandleReset ==
    LET r == handleReset(AppState) IN
    /\ inputs' = [inputs EXCEPT !.resets = @ + 1]
    /\ flipped' = r.flipped
    /\ animating' = r.animating
    /\ flippedCount' = r.flippedCount
    /\ completionEffectActive' = r.completionEffectActive
    /\ SetSim(r.sim)
    /\ SetDom(r.dom)
    /\ timers' = r.timers
    /\ finaleBeforeReset' = (finaleBeforeReset \/ finaleBursts > 0)
    /\ finaleBursts' = 0
    /\ resetClean' = TRUE
    /\ faults' = [faults EXCEPT !.recovered = @ \cup faults.stuck, !.stuck = {}]
    /\ UNCHANGED <<hidden, everAllFlipped, pageVars>>

PageHidden ==
    /\ ~hidden
    /\ hidden' = TRUE
    /\ SetSim(pauseAnimations(Sim))
    /\ UNCHANGED <<cellVars, domVars, timers, ghostVars, pageVars, faults>>

PageVisible ==
    /\ hidden
    /\ hidden' = FALSE
    /\ SetSim(resumeAnimations(Sim))
    /\ UNCHANGED <<cellVars, domVars, timers, ghostVars, pageVars, faults>>

\* the input events of a run are bounded
Activate == \E c \in Cells : inputs.clicks < MaxClicks /\ HandleCellClick(c)

Reset == inputs.resets < MaxResets /\ HandleReset

Next ==
    \/ Activate
    \/ ForwardDone
    \/ GuardClear
    \/ BackDone
    \/ CompletionFire
    \/ CooldownFire
    \/ RemovalFire
    \/ AnimationFrame
    \/ Reset

Spec == Init /\ [][Next]_vars

\* the same with visibilitychange events
NextVisibility == Next \/ PageHidden \/ PageVisible

VisibilitySpec == Init /\ [][NextVisibility]_vars

TypeOK ==
    /\ flipped \in [Cells -> BOOLEAN]
    /\ animating \in [Cells -> BOOLEAN]
    /\ flippedCount \in Int
    /\ inputs.clicks \in Nat /\ inputs.resets \in 0..MaxResets
    /\ faults.count \in 0..MaxFaults

(***************************************************************************)
(* Scenario: flipping the whole grid, forward activations only             *)
(***************************************************************************)
ActivateUnflipped ==
    \E c \in Cells :
        inputs.clicks < MaxClicks /\ ~flipped[c] /\ HandleCellClick(c)

NextFlipAll ==
    \/ ActivateUnflipped
    \/ ForwardDone
    \/ GuardClear
    \/ CompletionFire
    \/ CooldownFire
    \/ RemovalFire
    \/ AnimationFrame

FlipAllSpec == Init /\ [][NextFlipAll]_vars

(***************************************************************************)
(* Scenario: the grid is flipped and the finale emitted; once its effects  *)
(* are over (at most the cooldown still pending) one more activation, a    *)
(* reset, and the grid is flipped again.                                   *)
(***************************************************************************)
FinaleSeen == finaleBursts > 0 \/ finaleBeforeReset

ActivateReflip ==
    \E c \in Cells :
        /\ inputs.clicks < 2 * NumCells + 1
        /\ IF FinaleSeen /\ inputs.resets = 0
           THEN /\ inputs.clicks = NumCells
                /\ PendingKinds \subseteq {"cooldown"}
                /\ frames = {}
           ELSE ~flipped[c]
        /\ HandleCellClick(c)

ResetAfterFinale ==
    /\ inputs.resets < MaxResets
    /\ inputs.clicks = NumCells + 1
    /\ HandleReset

NextReflip ==
    \/ ActivateReflip
    \/ ForwardDone
    \/ GuardClear
    \/ BackDone
    \/ CompletionFire
    \/ CooldownFire
    \/ RemovalFire
    \/ AnimationFrame
    \/ ResetAfterFinale

ReflipSpec == Init /\ [][NextReflip]_vars

(***************************************************************************)
(* Start-up: the object is constructed on a document that offers any       *)
(* subset of the required surfaces, and init() is called; the handlers     *)
(* are registered by a successful init() only.                             *)
(***************************************************************************)
ConstructedOnly ==
    /\ Constructed
    /\ page \in SUBSET Surfaces
    /\ isInitialized = FALSE
    /\ initOutcome = "none"

InitCall ==
    LET r == init(page, isInitialized, fallbackShown) IN
    /\ isInitialized' = r.isInitialized
    /\ fallbackShown' = r.fallbackShown
    /\ initOutcome' = r.outcome
    /\ UNCHANGED <<cellVars, simVars, domVars, hidden, timers, ghostVars, page, faults>>

NextInit ==
    \/ InitCall
    \/ (isInitialized /\ Next)

InitSpec == ConstructedOnly /\ [][NextInit]_vars

(***************************************************************************)
(* Runs without reset                                                      *)
(***************************************************************************)
NextNoReset ==
    \/ Activate
    \/ ForwardDone
    \/ GuardClear
    \/ BackDone
    \/ CompletionFire
    \/ CooldownFire
    \/ RemovalFire
    \/ AnimationFrame

NoResetSpec == Init /\ [][NextNoReset]_vars

(***************************************************************************)
(* Scenario: a longer session.  The budget of activations is large enough  *)
(* for a cell to be flipped, flipped back and flipped again while the      *)
(* effects of the first flips are still displayed, so that the cap of the  *)
(* DOM effects is hit; the reset, if any, comes early in the session.      *)
(***************************************************************************)
LongClicks == 4
EarlyClicks == 1

ActivateLong == \E c \in Cells : inputs.clicks < LongClicks /\ HandleCellClick(c)

ResetEarly ==
    /\ inputs.resets < MaxResets
    /\ inputs.clicks <= EarlyClicks
    /\ HandleReset

NextLong ==
    \/ ActivateLong
    \/ ForwardDone
    \/ GuardClear
    \/ BackDone
    \/ CompletionFire
    \/ CooldownFire
    \/ RemovalFire
    \/ AnimationFrame
    \/ ResetEarly

LongSpec == Init /\ [][NextLong]_vars

(***************************************************************************)
(* Scenario: a patient user, who activates a cell only when no timer is    *)
(* pending; resets and visibility changes come at any moment.  The         *)
(* simulator is driven by the bursts, the frame callbacks, the resets and  *)
(* the visibility changes only, so every sequence of those is still        *)
(* produced; the budget of activations is large enough for the caps of     *)
(* the live list and of the pool to be hit.                                *)
(***************************************************************************)
PatientClicks == 6

ActivatePatient ==
    \E c \in Cells :
        inputs.clicks < PatientClicks /\ timers = <<>> /\ HandleCellClick(c)

NextPatient ==
    \/ ActivatePatient
    \/ PageHidden
    \/ PageVisible
    \/ ForwardDone
    \/ GuardClear
    \/ BackDone
    \/ CompletionFire
    \/ CooldownFire
    \/ RemovalFire
    \/ AnimationFrame
    \/ Reset

PatientSpec == Init /\ [][NextPatient]_vars

(***************************************************************************)
(* Properties                                                              *)
(***************************************************************************)
FlippedCells == {c \in Cells : flipped[c]}

AllFlipped == \A c \in Cells : flipped[c]

NoCellTimerPending == PendingKinds \cap CellKinds = {}

Quiescent == (\A c \in Cells : ~animating[c]) /\ NoCellTimerPending

ZeroState ==
    /\ \A c \in Cells : ~flipped[c] /\ ~animating[c]
    /\ flippedCount = 0
    /\ ~completionEffectActive
    /\ canvasParticles = <<>>
    /\ domParticles = <<>>
    /\ frames = {}
    /\ ~animationLoopRunning

\* C1: whenever the grid is quiescent (no guard set, no cell-transition
\* timer pending), flippedCount equals the number of flipped cells.
C1_CountAtQuiescence == Quiescent => flippedCount = Cardinality(FlippedCells)

\* C2: after a reset and until the next accepted activation, every cell
\* stays unflipped with its guard clear and flippedCount stays 0, whatever
\* timers scheduled before the reset fire.
C2_ResetStaysClean ==
    resetClean => /\ \A c \in Cells : ~flipped[c] /\ ~animating[c]
                  /\ flippedCount = 0

\* C3: flippedCount is within 0..gridSize*gridSize in every reachable state.
C3_CountInRange == flippedCount \in 0..totalCells

\* C4: activating a cell whose guard is set changes nothing: cells,
\* flippedCount, live particles, DOM effects and pending timers stay as
\* they are.
C4_GuardedActivationNoOp ==
    [][\A c \in Cells :
          (animating[c] /\ HandleCellClick(c))
              => UNCHANGED <<cellVars, simVars, domVars, timers>>]_vars

\* a guarded cell in the middle of its forward transition, with particles
\* live and effects displayed
C4_Witness ==
    \E c \in Cells :
        /\ animating[c] /\ ~flipped[c]
        /\ Timer("forward", c) \in SeqToSet(timers)
        /\ canvasParticles # <<>> /\ domParticles # <<>>

\* C5: a finale is scheduled or emitted only in runs in which, at some
\* moment, every cell carried the flipped flag.
C5_FinaleOnlyWhenAllFlipped ==
    (completionEffectActive \/ finaleBursts > 0 \/ "completion" \in PendingKinds)
        => everAllFlipped

\* C6: flipping every cell of an unflipped grid emits exactly one finale:
\* none before all cells are flipped, one once the last flip and the
\* completion delay are over, never a second.
C6_ExactlyOneFinale ==
    /\ finaleBursts <= 1
    /\ finaleBursts = 1 => AllFlipped /\ flippedCount = totalCells
    /\ (AllFlipped /\ PendingKinds \cap {"forward", "completion"} = {})
           => finaleBursts = 1

\* every cell flipped, the finale emitted, every timer run
C6_Witness == AllFlipped /\ finaleBursts = 1 /\ timers = <<>>

\* C7: after a finale and a reset, once every cell is flipped again (no
\* cell transition or completion delay still pending) a finale has been
\* emitted since the reset.
C7_FinaleAgainAfterReset ==
    (finaleBeforeReset /\ AllFlipped /\ NoCellTimerPending
         /\ "completion" \notin PendingKinds)
        => finaleBursts > 0

\* C8: a reset leaves every cell unflipped and unguarded, flippedCount 0,
\* the completion flag off, no live particle, no tracked effect, no frame
\* callback pending and the loop stopped.
C8_ResetZeroes == [][HandleReset => ZeroState']_vars

\* just after a reset that hit an in-flight forward transition whose
\* effects were displayed: its timers are still pending
C8_Witness ==
    /\ resetClean /\ ZeroState
    /\ {"forward", "particle"} \subseteq PendingKinds

\* C9: resetting twice in a row gives the state one reset gives.
C9_ResetIdempotent ==
    handleReset(handleReset(AppState)) = handleReset(AppState)

\* a state every part of which a reset changes
C9_Witness ==
    /\ \E c \in Cells : flipped[c]
    /\ \E c \in Cells : animating[c]
    /\ flippedCount # 0
    /\ canvasParticles # <<>> /\ domParticles # <<>>
    /\ frames # {} /\ animationLoopRunning
    /\ handleReset(AppState) # AppState

\* C10: no particle of the live list has life <= 0 once a frame pass is
\* over (particles are spawned with life > 0, and only a pass lowers it).
C10_NoExpiredLiveParticle ==
    \A i \in 1..Len(canvasParticles) : canvasParticles[i].life > 0

\* C11: the particle pool never holds more than its cap of records.
C11_PoolWithinCap == Len(particlePool) <= PoolCap

\* the pool is full and the running loop is about to retire one more
\* expired particle
C11_Witness ==
    /\ Len(particlePool) = PoolCap
    /\ animationLoopRunning /\ frames # {} /\ ~hidden
    /\ \E i \in 1..Len(canvasParticles) : canvasParticles[i].life <= 0

LiveIds == [i \in 1..Len(canvasParticles) |-> canvasParticles[i].id]

PoolIds == [i \in 1..Len(particlePool) |-> particlePool[i].id]

NoDuplicates(s) == \A i, j \in 1..Len(s) : i # j => s[i] # s[j]

\* C12: no particle record is in the pool and in the live list at once, and
\* none occurs twice in either.
C12_PoolLiveDisjoint ==
    /\ NoDuplicates(LiveIds)
    /\ NoDuplicates(PoolIds)
    /\ SeqToSet(LiveIds) \cap SeqToSet(PoolIds) = {}

\* records have moved both ways: the pool holds retired records and the
\* newest live record was created or recycled after older ones had left
C12_Witness ==
    /\ Len(particlePool) > 0
    /\ Len(canvasParticles) >= 2
    /\ LiveIds[Len(LiveIds)] < LiveIds[1]
    /\ \A i \in 1..Len(canvasParticles) : canvasParticles[i].active

\* the live records of the next state that are not live now
NewParticles ==
    {i \in 1..Len(canvasParticles') :
        canvasParticles'[i].id \notin SeqToSet(LiveIds)}

NewEffects == SeqToSet(domParticles') \ SeqToSet(domParticles)

\* C13: activating an idle unflipped cell sets its guard at once and creates
\* BurstSize canvas particles and particlesPerClick + smokeParticlesPerClick
\* + glowEffectsPerClick DOM effects, leaving flag and count alone; the
\* completion callback sets the flag and adds exactly 1 to flippedCount
\* while the guard is still set, and the guard is cleared only on a flipped
\* cell.
C13_ForwardActivation ==
    [][\A c \in Cells :
          /\ (~animating[c] /\ ~flipped[c] /\ HandleCellClick(c))
                => /\ animating'[c]
                   /\ flipped' = flipped /\ flippedCount' = flippedCount
                   /\ Cardinality(NewEffects) = EffectsPerClick
                   /\ NewEffects \subseteq attached'
                   /\ Len(canvasParticles) <= maxParticles
                         => Cardinality(NewParticles) = BurstSize
                   /\ \A i \in NewParticles : canvasParticles'[i].active
          /\ (ForwardDone /\ ~flipped[c] /\ flipped'[c])
                => /\ animating[c] /\ animating'[c]
                   /\ flippedCount' = flippedCount + 1
                   /\ Timer("guard", c) \in SeqToSet(timers')
          /\ (GuardClear /\ animating[c] /\ ~animating'[c]) => flipped[c]
      ]_vars

\* a forward transition is over: the cell is flipped, counted, its burst
\* and its effects are there, and its guard is still set
C13_Witness ==
    \E c \in Cells :
        /\ flipped[c] /\ animating[c] /\ flippedCount = 1
        /\ Timer("guard", c) \in SeqToSet(timers)
        /\ Len(canvasParticles) >= BurstSize
        /\ Len(domParticles) >= EffectsPerClick

\* C14: activating a flipped cell whose guard is clear sets the guard and
\* creates no canvas particle and no DOM effect; when the transition
\* completes the flipped flag and the guard of the cell are cleared and
\* flippedCount is decremented by exactly 1.
C14_BackActivation ==
    [][\A c \in Cells :
          /\ (flipped[c] /\ ~animating[c] /\ HandleCellClick(c))
                => /\ animating'[c]
                   /\ flipped' = flipped /\ flippedCount' = flippedCount
                   /\ UNCHANGED <<simVars, domVars>>
                   /\ timers' = Append(timers, Timer("back", c))
          /\ \A i \in 1..Len(timers) :
                (BackDone /\ timers[i] = Timer("back", c)
                     /\ timers' = RemoveAt(timers, i))
                  => /\ ~flipped'[c] /\ ~animating'[c]
                     /\ flippedCount' = flippedCount - 1
      ]_vars

\* a cell was flipped and flipped back, both transitions are over
C14_Witness ==
    /\ inputs.clicks = 2 /\ inputs.resets = 0
    /\ \A c \in Cells : ~flipped[c] /\ ~animating[c]
    /\ flippedCount = 0
    /\ NoCellTimerPending

\* C15: the live canvas particle list never holds more than maxParticles
\* records.
C15_LiveWithinCap == Len(canvasParticles) <= maxParticles

\* C16: the DOM effect tracking set never holds more than its cap of
\* effects.
C16_DomWithinCap == Len(domParticles) <= MaxDomParticles

\* C17: a frame pass that ends with an empty live list stops the loop and
\* leaves no frame callback scheduled; a burst spawned on a visible page
\* while the loop is not running leaves the loop running with its frame
\* callback scheduled.
C17_LoopLifecycle ==
    [][/\ (AnimationFrame /\ canvasParticles' = <<>>)
            => (~animationLoopRunning' /\ frames' = {})
       /\ \A c \in Cells :
            (~hidden /\ ~animationLoopRunning /\ ~animating[c] /\ ~flipped[c]
                 /\ HandleCellClick(c))
              => (animationLoopRunning' /\ rafId' # 0 /\ rafId' \in frames')
      ]_vars

\* two bursts, the second of which recycled the record of the first: the
\* loop stopped, was restarted by the second burst and has stopped again
C17_Witness ==
    /\ inputs.clicks = 2 /\ inputs.resets = 0
    /\ \A c \in Cells : flipped[c] \/ Timer("forward", c) \in SeqToSet(timers)
    /\ ~hidden /\ ~animationLoopRunning /\ frames = {}
    /\ canvasParticles = <<>>
    /\ Len(particlePool) = 1

\* C18: while the page is hidden the loop is not running and no frame
\* callback is scheduled.
C18_SuspendedWhileHidden == hidden => (~animationLoopRunning /\ frames = {})

\* removal timers whose effect is no longer tracked
StaleRemovals ==
    {i \in 1..Len(timers) :
        timers[i].kind \in DomKinds /\ timers[i].arg \notin SeqToSet(domParticles)}

\* C19: when the removal timer of an effect that is no longer tracked
\* (removed by cap eviction or by reset) fires, the tracking set and the
\* displayed effects stay as they are.
C19_StaleRemovalNoOp ==
    [][\A i \in StaleRemovals :
          (RemovalFire /\ timers' = RemoveAt(timers, i)) => UNCHANGED domVars
      ]_vars

\* no reset so far: an effect was evicted by the cap, its removal timer is
\* still to fire, and other effects are displayed
C19_Witness ==
    /\ inputs.resets = 0
    /\ StaleRemovals # {}
    /\ domParticles # <<>>

\* an effect was removed by a reset, its removal timer is still to fire,
\* and effects created after the reset are displayed
C19_WitnessReset ==
    /\ inputs.resets = 1
    /\ StaleRemovals # {}
    /\ domParticles # <<>>

\* C20: when init() was called on a document that lacks a required surface,
\* it returned without throwing, isInitialized is false and the fallback
\* text is shown.
C20_InitFailureFallback ==
    (initOutcome # "none" /\ page # Surfaces)
        => (initOutcome = "returned" /\ ~isInitialized /\ fallbackShown)

\* C21: after a reset and until the next accepted activation no finale is
\* emitted: a completion scheduled before the reset emits nothing.
C21_NoStaleFinale == resetClean => finaleBursts = 0

\* the transition-completion callbacks of cell c that are pending
PendingTransitions(c) ==
    {i \in 1..Len(timers) :
        timers[i].kind \in {"forward", "back"} /\ timers[i].arg = c}

\* C22: a cell never has two transition-completion callbacks pending at
\* once, resets included.
C22_OneTransitionInFlight ==
    \A c \in Cells : Cardinality(PendingTransitions(c)) <= 1

\* C23: in a run without reset flippedCount equals the number of cells that
\* carry the flipped flag, in every state.
C23_CountIsFlippedCells == flippedCount = Cardinality(FlippedCells)

\* one cell flipped and counted, its guard still set, while another cell is
\* in the middle of its forward transition
C23_Witness ==
    \E c, d \in Cells :
        /\ c # d
        /\ flipped[c] /\ animating[c] /\ flippedCount = 1
        /\ ~flipped[d] /\ animating[d] /\ Timer("forward", d) \in SeqToSet(timers)

\* flag and guard of every cell but c stay as they are
OthersUntouched(c) ==
    \A d \in Cells \ {c} : flipped'[d] = flipped[d] /\ animating'[d] = animating[d]

\* C24: an activation of a cell, and a completion or guard callback of a
\* cell, leave flag and guard of every other cell unchanged; an activation
\* is accepted exactly when the cell's own guard is clear, whatever the
\* other cells are doing.
C24_CellsIndependent ==
    /\ [](\A c \in Cells :
             ~animating[c] => ENABLED (HandleCellClick(c) /\ animating'[c]))
    /\ [][\A c \in Cells :
             /\ HandleCellClick(c)
                   => /\ OthersUntouched(c)
                      /\ inputs'.clicks # inputs.clicks => ~animating[c]
             /\ (ForwardDone \/ GuardClear \/ BackDone)
                   => \E i \in 1..Len(timers) :
                         /\ timers[i].kind \in CellKinds
                         /\ OthersUntouched(timers[i].arg)
       ]_vars

\* two cells in transition at once: the second was accepted while the
\* first was guarded
C24_Witness ==
    \E c, d \in Cells :
        /\ c # d
        /\ animating[c] /\ animating[d]
        /\ Timer("forward", c) \in SeqToSet(timers)
        /\ Timer("forward", d) \in SeqToSet(timers)

(***************************************************************************)
(* Fair firing of timers.  The browser runs the callback of every timer    *)
(* whose delay has elapsed, so a callback that can run does run.           *)
(***************************************************************************)
TimerFairness ==
    /\ WF_vars(ForwardDone)
    /\ WF_vars(GuardClear)
    /\ WF_vars(BackDone)
    /\ WF_vars(CompletionFire)
    /\ WF_vars(CooldownFire)
    /\ WF_vars(RemovalFire)

FairNoResetSpec == Init /\ [][NextNoReset]_vars /\ TimerFairness

\* C25: with fair firing of timers and no reset, every cell whose guard is
\* set (an accepted activation) eventually has its guard cleared.
C25_GuardEventuallyCleared ==
    \A c \in Cells : animating[c] ~> ~animating[c]

\* a cell whose forward transition has run to its end: flipped, guard
\* cleared by the nested callback, nothing of the cell pending
C25_Witness ==
    \E c \in Cells :
        /\ flipped[c] /\ ~animating[c]
        /\ PendingTransitions(c) = {}
        /\ inputs.clicks > 0

(***************************************************************************)
(* Exceptions.  A statement of a handler throws; what the handler has done *)
(* before stays done, the rest of the try block (or of the callback, which *)
(* has none) is skipped, and the catch clause, if any, runs.  `faults`     *)
(* records what happened: how many exceptions, which callers one reached   *)
(* ("timer": the timer dispatcher), the cells left guarded with no         *)
(* callback to clear the guard, those of them a reset has released, the    *)
(* cells whose effects failed, and the frame passes that failed.           *)
(***************************************************************************)
Thrown == [faults EXCEPT !.count = @ + 1]

MayThrow == faults.count < MaxFaults

\* handleCellClick when animateCell throws: at getBoundingClientRect (512),
\* before the guard is set, or at the style assignment (550, 578-579), after
\* it.  The catch at 522 logs; nothing is scheduled.
ActivateFault ==
    \E c \in Cells, at \in {"rect", "style"} :
        /\ MayThrow /\ inputs.clicks < MaxClicks
        /\ ~Rejects(c)
        /\ animating' = [animating EXCEPT ![c] = (at = "style")]
        /\ faults' = [Thrown EXCEPT !.stuck = IF at = "style" THEN @ \cup {c} ELSE @]
        /\ inputs' = [inputs EXCEPT !.clicks = @ + 1]
        /\ resetClean' = (resetClean /\ at = "rect")
        /\ UNCHANGED <<flipped, flippedCount, completionEffectActive, simVars,
                       domVars, hidden, timers, finaleBursts, finaleBeforeReset,
                       everAllFlipped, pageVars>>

\* the 50 ms callback when it throws: at classList.add (586), or after the
\* counter at updateProgress / setAttribute (590-595).  Nothing catches it;
\* checkAllFlipped and the nested setTimeout are not reached.
ForwardDoneFault ==
    \E i \in 1..Len(timers), at \in {"add", "progress"} :
        /\ MayThrow
        /\ CanFire(i) /\ timers[i].kind = "forward"
        /\ LET c == timers[i].arg IN
           /\ flipped' = [flipped EXCEPT ![c] = (@ \/ at = "progress")]
           /\ flippedCount' = flippedCount + (IF at = "progress" THEN 1 ELSE 0)
           /\ everAllFlipped' = (everAllFlipped
                                    \/ (at = "progress"
                                          /\ \A d \in Cells : d = c \/ flipped[d]))
           /\ faults' = [Thrown EXCEPT !.escaped = @ \cup {"timer"},
                                       !.stuck = IF animating[c] THEN @ \cup {c} ELSE @]
        /\ timers' = RemoveAt(timers, i)
        /\ UNCHANGED <<animating, completionEffectActive, simVars, domVars,
                       hidden, finaleBursts, finaleBeforeReset, resetClean,
                       inputs, pageVars>>

\* the 800 ms callback when it throws: at classList.remove (553), or after
\* the guard and the counter at updateProgress / setAttribute (559-564)
BackDoneFault ==
    \E i \in 1..Len(timers), at \in {"remove", "progress"} :
        /\ MayThrow
        /\ CanFire(i) /\ timers[i].kind = "back"
        /\ LET c == timers[i].arg IN
           /\ flipped' = [flipped EXCEPT ![c] = (@ /\ at = "remove")]
           /\ animating' = [animating EXCEPT ![c] = (@ /\ at = "remove")]
           /\ flippedCount' = flippedCount - (IF at = "progress" THEN 1 ELSE 0)
           /\ faults' = [Thrown EXCEPT !.escaped = @ \cup {"timer"},
                                       !.stuck = IF at = "remove" /\ animating[c]
                                                 THEN @ \cup {c} ELSE @]
        /\ timers' = RemoveAt(timers, i)
        /\ UNCHANGED <<completionEffectActive, simVars, domVars, hidden,
                       ghostVars, pageVars>>

\* the reverse loop of animateCanvasParticles from index i down to stop + 1
RECURSIVE advanceTo(_, _, _, _)
advanceTo(i, stop, parts, pool) ==
    IF i <= stop THEN [parts |-> parts, pool |-> pool]
    ELSE LET p == parts[i] IN
         IF ~p.active \/ p.life <= 0
         THEN advanceTo(i - 1, stop, RemoveAt(parts, i), returnParticleToPool(pool, p))
         ELSE advanceTo(i - 1, stop, [parts EXCEPT ![i] = updateParticle(p)], pool)

\* variant: the catch clause asks for the next frame
animateCanvasParticlesThrows_respin(s, k) ==
    LET r == advanceTo(Len(s.parts), Min(k, Len(s.parts)), s.parts, s.pool)
        parts == IF k <= Len(s.parts)
                 THEN [r.parts EXCEPT ![k] = updateParticle(@)]
                 ELSE r.parts
    IN [s EXCEPT !.parts = parts, !.pool = r.pool,
                 !.rafId = NewFrameId(s), !.frames = @ \cup {NewFrameId(s)}]

\* animateCanvasParticles when a pass throws: at clearRect (735; k is the
\* length of the list, no particle visited), or at drawParticle of the live
\* particle at index k (750).  The catch at 758 stops the loop.
animateCanvasParticlesThrows(s, k) ==
    LET r == advanceTo(Len(s.parts), Min(k, Len(s.parts)), s.parts, s.pool)
        parts == IF k <= Len(s.parts)
                 THEN [r.parts EXCEPT ![k] = updateParticle(@)]
                 ELSE r.parts
    IN [s EXCEPT !.parts = parts, !.pool = r.pool, !.running = FALSE]

AnimationFrameFault ==
    \E f \in frames, k \in 1..(Len(canvasParticles) + 1) :
        /\ MayThrow
        /\ ~hidden /\ animationLoopRunning
        /\ k <= Len(canvasParticles)
              => canvasParticles[k].active /\ canvasParticles[k].life > 0
        /\ SetSim(animateCanvasParticlesThrows([Sim EXCEPT !.frames = frames \ {f}], k))
        /\ faults' = [Thrown EXCEPT !.frames = @ + 1]
        /\ UNCHANGED <<cellVars, domVars, hidden, timers, ghostVars, pageVars>>

NextFault ==
    \/ Next
    \/ ActivateFault
    \/ ForwardDoneFault
    \/ BackDoneFault
    \/ AnimationFrameFault

FaultSpec == Init /\ [][NextFault]_vars

\* C26: an exception thrown during a cell transition never reaches the
\* caller of the input handler, and the guard it may leave set does not
\* outlive the next reset: reset clears every guard, and a cell whose guard
\* is clear accepts an activation.
C26_FaultGuardReleasedByReset ==
    /\ []("handleCellClick" \notin faults.escaped)
    /\ [][HandleReset => \A c \in Cells : ~animating'[c]]_vars
    /\ [](\A c \in Cells :
             ~animating[c] => ENABLED (HandleCellClick(c) /\ animating'[c]))

\* a cell left guarded by an exception, released by a reset and activated
\* again
C26_Witness ==
    \E c \in faults.recovered :
        /\ animating[c]
        /\ Timer("forward", c) \in SeqToSet(timers)

\* C28: a frame pass that throws shuts the frame loop down: after it
\* animationLoopRunning is false, and the pass has consumed its own
\* callback without requesting another one.
C28_FrameFaultStopsLoop ==
    [][faults'.frames # faults.frames
          => /\ ~animationLoopRunning'
             /\ frames' \subseteq frames /\ frames' # frames
             /\ rafId' = rafId]_vars

\* a failed pass left live particles behind, the loop is down and no frame
\* callback is pending
C28_Witness ==
    /\ faults.frames > 0
    /\ Len(canvasParticles) > 0
    /\ ~animationLoopRunning
    /\ frames = {}

(***************************************************************************)
(* Failures local to the effects of a forward activation, and of the       *)
(* finale                                                                  *)
(***************************************************************************)
\* createCanvasParticles when it throws after `made` records were added to
\* the list: at getBoundingClientRect (643) or, the record of the turn
\* already acquired, inside a turn of the spawn loop (648-659).  The catch
\* at 667 logs; startAnimationLoop is not reached.
createCanvasParticlesThrows(s, lives, made, acquired) ==
    LET kept == IF Len(s.parts) > maxParticles
                THEN SubSeq(s.parts, Min(maxParticles \div 2, Len(s.parts)) + 1,
                            Len(s.parts))
                ELSE s.parts
        r == spawn(kept, s.pool, SubSeq(lives, 1, made))
        pool == IF acquired THEN acquire(r.parts, r.pool).pool ELSE r.pool
    IN [s EXCEPT !.parts = r.parts, !.pool = pool]

\* which of the three loops creates the i-th effect of an activation
EffectKind(i) ==
    IF i <= particlesPerClick THEN "particle"
    ELSE IF i <= particlesPerClick + smokeParticlesPerClick THEN "smoke"
    ELSE "glow"

\* removal timers of the first effects of an activation, by ascending delay
PrefixTimers(ids) ==
    LET all == [i \in 1..Len(ids) |-> Timer(EffectKind(i), ids[i])]
    IN SelectSeq(all, LAMBDA t : t.kind = "glow")
       \o SelectSeq(all, LAMBDA t : t.kind = "particle")
       \o SelectSeq(all, LAMBDA t : t.kind = "smoke")

\* createParticleEffects when it throws: at getBoundingClientRect (806,
\* early, ids empty), or at the appendChild that follows the creation of
\* the effects `ids` (850).  The catch at 816 logs.
createParticleEffectsThrows(d, ids, early) ==
    IF early THEN d
    ELSE addEffects(IF Len(d.set) > MaxDomParticles THEN cleanupOldParticles(d)
                    ELSE d,
                    ids)

\* variant: the failure of an effect is not caught where it happens, the
\* activation stops there
flipCellForwardThrows_abort(c, lives, dom, canvas, early) ==
    LET ids == FreshIds(UsedElems, dom) IN
    /\ SetDom(IF dom = EffectsPerClick THEN createParticleEffects(Dom, ids)
              ELSE createParticleEffectsThrows(Dom, ids, early))
    /\ SetSim(IF dom < EffectsPerClick THEN Sim
              ELSE createCanvasParticlesThrows(Sim, lives, canvas, ~early))
    /\ timers' = timers \o (IF dom = EffectsPerClick THEN EffectTimers(ids)
                            ELSE PrefixTimers(ids))

\* flipCellForward when createParticleEffects fails after `dom` effects
\* (dom < EffectsPerClick) or createCanvasParticles after `canvas` particles
\* (canvas < BurstSize): the flip goes on (585)
flipCellForwardThrows(c, lives, dom, canvas, early) ==
    LET ids == FreshIds(UsedElems, dom) IN
    /\ SetDom(IF dom = EffectsPerClick THEN createParticleEffects(Dom, ids)
              ELSE createParticleEffectsThrows(Dom, ids, early))
    /\ SetSim(IF canvas = BurstSize THEN createCanvasParticles(Sim, lives)
              ELSE createCanvasParticlesThrows(Sim, lives, canvas, ~early))
    /\ timers' = Append(timers, Timer("forward", c))
                    \o (IF dom = EffectsPerClick THEN EffectTimers(ids)
                        ELSE PrefixTimers(ids))

ActivateEffectFault ==
    \E c \in Cells, lives \in SeqsOf(1..MaxLife, BurstSize),
       dom \in 0..EffectsPerClick, canvas \in 0..BurstSize, early \in BOOLEAN :
        /\ MayThrow /\ inputs.clicks < MaxClicks
        /\ ~Rejects(c) /\ ~flipped[c]
        /\ dom < EffectsPerClick \/ canvas < BurstSize
        /\ early => dom \in {0, EffectsPerClick} /\ canvas \in {0, BurstSize}
        /\ animating' = [animating EXCEPT ![c] = TRUE]
        /\ flipCellForwardThrows(c, lives, dom, canvas, early)
        /\ faults' = [Thrown EXCEPT !.effects = @ \cup {c}]
        /\ resetClean' = FALSE
        /\ inputs' = [inputs EXCEPT !.clicks = @ + 1]
        /\ UNCHANGED <<flipped, flippedCount, completionEffectActive, hidden,
                       finaleBursts, finaleBeforeReset, everAllFlipped,
                       pageVars>>

\* variant: the catch clause logs and leaves the flag set
CompletionFault_keepFlag ==
    \E i \in 1..Len(timers), made \in 0..(FinaleSize - 1) :
        /\ MayThrow
        /\ CanFire(i) /\ timers[i].kind = "completion"
        /\ LET ids == FreshIds(UsedElems, made) IN
           /\ SetDom(createGrandFinaleEffect(Dom, ids))
           /\ timers' = RemoveAt(timers, i)
                          \o [k \in 1..made |-> Timer("finale", ids[k])]
        /\ finaleBursts' = finaleBursts + (IF made > 0 THEN 1 ELSE 0)
        /\ faults' = Thrown
        /\ UNCHANGED <<cellVars, simVars, hidden, finaleBeforeReset, resetClean,
                       everAllFlipped, inputs, pageVars>>

\* createCompletionEffect when it throws: at getBoundingClientRect (1014)
\* or in createGrandFinaleEffect after `made` fragments (1057).  The catch
\* at 1025 clears the flag; the cooldown is not scheduled.
CompletionFault ==
    \E i \in 1..Len(timers), made \in 0..(FinaleSize - 1) :
        /\ MayThrow
        /\ CanFire(i) /\ timers[i].kind = "completion"
        /\ LET ids == FreshIds(UsedElems, made) IN
           /\ SetDom(createGrandFinaleEffect(Dom, ids))
           /\ timers' = RemoveAt(timers, i)
                          \o [k \in 1..made |-> Timer("finale", ids[k])]
        /\ completionEffectActive' = FALSE
        /\ finaleBursts' = finaleBursts + (IF made > 0 THEN 1 ELSE 0)
        /\ faults' = Thrown
        /\ UNCHANGED <<flipped, animating, flippedCount, simVars, hidden,
                       finaleBeforeReset, resetClean, everAllFlipped, inputs,
                       pageVars>>

NextFairFault ==
    \/ NextNoReset
    \/ ActivateEffectFault
    \/ CompletionFault

\* no reset; the effects of an activation and the finale may fail; every
\* timer callback that can run does
FairFaultSpec == Init /\ [][NextFairFault]_vars /\ TimerFairness

\* C27: a failure of the DOM effects or of the canvas burst of a forward
\* activation leaves the flip going: the 50 ms callback is scheduled with
\* the guard set; the effects that existed are kept, the live particles
\* too (or the burst went through as without failure) and a failed burst
\* leaves the frame loop as it was; the cell goes on to flipped with its
\* guard cleared, the counter following the flipped cells.
C27_EffectFaultKeepsFlip ==
    /\ [][\A c \in Cells :
            c \in faults'.effects \ faults.effects
               => /\ animating'[c]
                  /\ Cardinality(PendingTransitions(c)') = 1
                  /\ Len(domParticles) <= MaxDomParticles
                        => /\ SubSeq(domParticles', 1, Len(domParticles)) = domParticles
                           /\ attached \subseteq attached'
                  /\ Len(canvasParticles) <= maxParticles
                        => \/ \E lives \in SeqsOf(1..MaxLife, BurstSize) :
                                 Sim' = createCanvasParticles(Sim, lives)
                           \/ /\ SubSeq(canvasParticles', 1, Len(canvasParticles))
                                    = canvasParticles
                              /\ frames' = frames /\ rafId' = rafId
                              /\ animationLoopRunning' = animationLoopRunning
         ]_vars
    /\ \A c \in Cells :
          (c \in faults.effects /\ animating[c] /\ ~flipped[c])
             ~> (flipped[c] /\ ~animating[c])
    /\ [](flippedCount = Cardinality(FlippedCells))

\* the flip of a cell whose effects failed has completed
C27_Witness ==
    \E c \in faults.effects :
        /\ flipped[c] /\ ~animating[c]
        /\ flippedCount = Cardinality(FlippedCells)
        /\ flippedCount > 0

\* C30: with fair firing of timers and no reset, completionEffectActive,
\* once set, is cleared again: by the cooldown callback, or at once by the
\* catch clause when emitting the finale fails.
C30_CompletionFlagCleared ==
    completionEffectActive ~> ~completionEffectActive

\* the finale failed before its first fragment: every cell is flipped, the
\* flag is clear again and neither finale nor cooldown was left behind
C30_Witness ==
    /\ faults.count > 0
    /\ flippedCount = totalCells /\ \A c \in Cells : flipped[c]
    /\ ~completionEffectActive
    /\ finaleBursts = 0
    /\ {"completion", "cooldown"} \cap PendingKinds = {}

\* C29: releasing a live record gives the pool the record marked inactive
\* as its last element exactly when the pool holds fewer than PoolCap
\* records, and leaves the pool as it is otherwise; acquiring takes the
\* last record out of a non-empty pool, and from an empty pool gives a new
\* zero record, inactive, that no live record is, the pool staying empty.
C29_AcquireRelease ==
    /\ \A i \in 1..Len(canvasParticles) :
          LET p == canvasParticles[i]
              out == returnParticleToPool(particlePool, p)
          IN IF Len(particlePool) < PoolCap
             THEN /\ Len(out) = Len(particlePool) + 1
                  /\ SubSeq(out, 1, Len(particlePool)) = particlePool
                  /\ out[Len(out)].id = p.id /\ out[Len(out)].life = p.life
                  /\ ~out[Len(out)].active
             ELSE out = particlePool
    /\ LET a == acquire(canvasParticles, particlePool)
           n == Len(particlePool)
       IN IF n > 0
          THEN /\ a.rec = particlePool[n]
               /\ Len(a.pool) = n - 1
               /\ \A j \in 1..(n - 1) : a.pool[j] = particlePool[j]
          ELSE /\ a.rec.life = 0 /\ ~a.rec.active
               /\ a.rec.id \notin SeqToSet(LiveIds)
               /\ a.pool = <<>>

\* the pool is full while a live record is about to be released: the next
\* pass drops it; the records of the pool were released earlier
C29_Witness ==
    /\ Len(particlePool) = PoolCap
    /\ \E i \in 1..Len(canvasParticles) : canvasParticles[i].life <= 0

\* pending timers of one kind
PendingOf(kind) == {i \in 1..Len(timers) : timers[i].kind = kind}

\* the cooldown about to run belongs to the completion that set the flag:
\* that completion has emitted its finale and no other cooldown is pending
OwnCooldown ==
    /\ PendingOf("completion") = {}
    /\ Cardinality(PendingOf("cooldown")) = 1

\* C31: completionEffectActive, once set, is cleared only by a reset or by
\* the cooldown of the completion that set it, never by the cooldown left
\* over from an earlier completion.
C31_FlagHeldUntilOwnCooldown ==
    [][(completionEffectActive /\ ~completionEffectActive')
          => (HandleReset \/ (CooldownFire /\ OwnCooldown))]_vars

\* C32: at most one frame callback is pending, and one is pending only
\* while animationLoopRunning is true.
C32_SingleFrameLoop ==
    /\ Cardinality(frames) <= 1
    /\ frames # {} => animationLoopRunning

\* after a reset, two bursts are live on a visible page and the loop runs:
\* one callback is pending, the one the loop remembers
C32_Witness ==
    /\ ~hidden /\ animationLoopRunning
    /\ frames = {rafId}
    /\ Len(canvasParticles) > 1
    /\ inputs.resets > 0

(***************************************************************************)
(* Fair firing of frame callbacks on a visible page: the browser delivers  *)
(* a requested animation frame.                                            *)
(***************************************************************************)
FairFrameSpec == Init /\ [][Next]_vars /\ WF_vars(AnimationFrame)

\* C33: on a visible page a frame pass takes exactly 1 life from every
\* particle it keeps and adds none; no step gives life to a live particle
\* (an activation keeps the live particles as they are, but for the oldest
\* ones it drops when the list is over its cap); and the live list
\* eventually empties with the loop stopped and no frame callback left.
C33_SimulatorTerminates ==
    /\ [][/\ AnimationFrame
               => \A j \in 1..Len(canvasParticles') :
                     \E i \in 1..Len(canvasParticles) :
                        /\ canvasParticles[i].id = canvasParticles'[j].id
                        /\ canvasParticles'[j].life = canvasParticles[i].life - 1
          /\ inputs'.clicks = inputs.clicks
               => \A i \in 1..Len(canvasParticles), j \in 1..Len(canvasParticles') :
                     canvasParticles[i].id = canvasParticles'[j].id
                        => canvasParticles'[j].life <= canvasParticles[i].life
          /\ inputs'.clicks # inputs.clicks
               => \E d \in 0..Len(canvasParticles) :
                     /\ d > 0 => Len(canvasParticles) > maxParticles
                     /\ Len(canvasParticles') >= Len(canvasParticles) - d
                     /\ \A k \in 1..(Len(canvasParticles) - d) :
                           /\ canvasParticles'[k].id = canvasParticles[k + d].id
                           /\ canvasParticles'[k].life <= canvasParticles[k + d].life
         ]_vars
    /\ (canvasParticles # <<>>)
          ~> (canvasParticles = <<>> /\ ~animationLoopRunning /\ frames = {})

\* every burst of the run has been retired into the pool and the loop has
\* stopped
C33_Witness ==
    /\ inputs.clicks = MaxClicks
    /\ canvasParticles = <<>> /\ particlePool # <<>>
    /\ \A i \in 1..Len(particlePool) : particlePool[i].life <= 0
    /\ ~animationLoopRunning /\ frames = {}

\* C34: the tracking set of the DOM effects holds exactly the effect
\* elements attached to the display, each once.
C34_TrackedIsAttached ==
    /\ SeqToSet(domParticles) = attached
    /\ Cardinality(attached) = Len(domParticles)

\* effects were evicted at the cap (their removal timers are still to
\* fire) and at least two later effects are displayed and tracked
C34_Witness ==
    /\ inputs.resets = 0
    /\ StaleRemovals # {}
    /\ Len(domParticles) >= 2
    /\ attached = SeqToSet(domParticles)
    /\ "back" \notin PendingKinds

====
